---- MODULE Spec2Model ----
(***************************************************************************)
(* Model of app.py: one run of the Streamlit script.  The script is        *)
(* straight-line code; the model cuts it at every external call (model     *)
(* listing, configuration, language detection, translation, generation),   *)
(* whose outcome is chosen nondeterministically, and at the two places     *)
(* where the user supplies input (the text area and the button).           *)
(*                                                                         *)
(* Texts are sequences of one-character strings.  `calls' is the history   *)
(* of the external calls the run has issued, with their arguments and      *)
(* outcomes; `msgs' is the history of what was written to the page.        *)
(***************************************************************************)
EXTENDS Integers, Sequences, FiniteSets, TLC

VARIABLES pc, api_key, user_text, clicked, word_count, detected_language,
          translated_text, translation_needed, questions, generated,
          displayed, msgs, calls, uncaught

vars == <<pc, api_key, user_text, clicked, word_count, detected_language,
          translated_text, translation_needed, questions, generated,
          displayed, msgs, calls, uncaught>>

(* ------------------------------ bounds --------------------------------- *)

\* longest text typed into the text area
MaxLen == 9

\* longest raw response text of the generative model
MaxGenLen == 2

(* ------------------------------ values --------------------------------- *)

\* app.py:87
min_word_limit == 5

\* characters matched by \w in the modelled alphabet
WordChars == {"a", "_", "q", "t"}

\* characters removed by str.strip()
Whitespace == {" "}

\* alphabet of the text area
InputChars == {"a", "_", " "}

\* alphabet of the raw response of the generative model
GenChars == {"q", " "}

\* language tags detect() can return
Languages == {"en", "fr", "es"}

\* Python's None, and "nothing written" for the output area
None == <<"None">>

\* the fixed text returned for an empty response (app.py:59)
NoQuestionsMsg == <<"No questions could be generated from the provided text.">>

RECURSIVE SeqsUpTo(_, _)
SeqsUpTo(S, n) ==
    IF n = 0 THEN {<<>>}
    ELSE LET shorter == SeqsUpTo(S, n - 1)
         IN  shorter \cup {Append(s, c) : s \in {x \in shorter : Len(x) = n - 1}, c \in S}

UserTexts == SeqsUpTo(InputChars, MaxLen)

GenTexts == SeqsUpTo(GenChars, MaxGenLen)

\* texts the translation service can return (it may return an empty text)
TransTexts == {<<>>, <<"t">>, <<"t", " ", "t">>}

\* failures of model.generate_content: two GoogleAPIError kinds and any other exception
GenErrors == {"quota", "api_error", "unexpected"}

(* --------------------------- pure functions ---------------------------- *)

\* len(re.findall(r'\w+', text)): the number of maximal runs of word characters
RECURSIVE WordCount(_)
WordCount(text) ==
    IF text = <<>> THEN 0
    ELSE LET n == Len(text)
             init == SubSeq(text, 1, n - 1)
             endsRun == /\ text[n] \in WordChars
                        /\ (n = 1 \/ text[n - 1] \notin WordChars)
         IN  WordCount(init) + (IF endsRun THEN 1 ELSE 0)

RECURSIVE LStrip(_)
LStrip(text) ==
    IF text # <<>> /\ Head(text) \in Whitespace THEN LStrip(Tail(text)) ELSE text

RECURSIVE RStrip(_)
RStrip(text) ==
    IF text # <<>> /\ text[Len(text)] \in Whitespace
    THEN RStrip(SubSeq(text, 1, Len(text) - 1))
    ELSE text

\* str.strip()
Strip(text) == LStrip(RStrip(text))

PromptHead == <<"Generate a list of questions based on the following text. Text: ---">>

PromptTail == <<"--- Questions:">>

\* the f-string of generate_questions
Prompt(text) == PromptHead \o text \o PromptTail

QuestionsFrom_m(raw) == Strip(raw)

\* the value generate_questions returns for a response text
QuestionsFrom(raw) ==
    IF Strip(raw) = <<>> THEN NoQuestionsMsg ELSE Strip(raw)

(* ------------------------- history of calls ---------------------------- *)

\* one external call: the source line issuing it, its arguments, whether it
\* returned (ok) or raised, the text it returned and the kind of its failure
Call(at, op, text, src, dest, ok, ret, err) ==
    [at |-> at, op |-> op, text |-> text, src |-> src, dest |-> dest,
     ok |-> ok, ret |-> ret, err |-> err]

Issued == {calls[i] : i \in 1..Len(calls)}

(* ------------------------------- Init ---------------------------------- *)

Init ==
    /\ pc = "load_key"
    /\ api_key = FALSE
    /\ user_text = <<>>
    /\ clicked = FALSE
    /\ word_count = 0
    /\ detected_language = "en"
    /\ translated_text = <<>>
    /\ translation_needed = FALSE
    /\ questions = None
    /\ generated = None
    /\ displayed = None
    /\ msgs = <<>>
    /\ calls = <<>>
    /\ uncaught = FALSE

(* ------------------------------ startup -------------------------------- *)

\* API_KEY = os.getenv(...) or st.secrets.get(...); stop when it is missing
LoadKey ==
    /\ pc = "load_key"
    /\ \E k \in BOOLEAN :
         /\ api_key' = k
         /\ IF k
            THEN /\ pc' = "list_models"
                 /\ msgs' = msgs
            ELSE /\ pc' = "stopped"
                 /\ msgs' = Append(msgs, "error:no_api_key")
    /\ UNCHANGED <<user_text, clicked, word_count, detected_language,
                   translated_text, translation_needed, questions, generated,
                   displayed, calls, uncaught>>

\* st.subheader("Available Models"); for model_info in genai.list_models(): ...
\* The call is outside every try block: its exception ends the run.
ListModels ==
    /\ pc = "list_models"
    /\ \E ok \in BOOLEAN :
         /\ calls' = Append(calls, Call(22, "list_models", <<>>, "", "", ok, None, ""))
         /\ IF ok
            THEN /\ pc' = "configure"
                 /\ msgs' = msgs \o <<"subheader:available_models", "write:model_names">>
                 /\ uncaught' = uncaught
            ELSE /\ pc' = "crashed"
                 /\ msgs' = Append(msgs, "subheader:available_models")
                 /\ uncaught' = TRUE
    /\ UNCHANGED <<api_key, user_text, clicked, word_count, detected_language,
                   translated_text, translation_needed, questions, generated,
                   displayed>>

\* try: genai.configure(...); model = genai.GenerativeModel(...)
\* except Exception: st.error(...); st.stop()
Configure ==
    /\ pc = "configure"
    /\ \E ok \in BOOLEAN :
         /\ calls' = Append(calls, Call(27, "configure", <<>>, "", "", ok, None, ""))
         /\ IF ok
            THEN /\ pc' = "main"
                 /\ msgs' = msgs
            ELSE /\ pc' = "stopped"
                 /\ msgs' = Append(msgs, "error:configure_failed")
    /\ UNCHANGED <<api_key, user_text, clicked, word_count, detected_language,
                   translated_text, translation_needed, questions, generated,
                   displayed, uncaught>>

(* ------------------------------- main ---------------------------------- *)

\* st.title, st.info, user_text = st.text_area(...)
RenderForm ==
    /\ pc = "main"
    /\ \E t \in UserTexts : user_text' = t
    /\ msgs' = msgs \o <<"title", "info:about">>
    /\ pc' = "validate"
    /\ UNCHANGED <<api_key, clicked, word_count, detected_language,
                   translated_text, translation_needed, questions, generated,
                   displayed, calls, uncaught>>

\* word count, the minimum, and the button in either form
Validate ==
    /\ pc = "validate"
    /\ word_count' = WordCount(user_text)
    /\ IF word_count' < min_word_limit
       THEN /\ msgs' = msgs \o <<"warning:min_words", "button:disabled">>
            /\ clicked' = FALSE
            /\ pc' = "rejected"
       ELSE /\ msgs' = Append(msgs, "button:enabled")
            /\ \E c \in BOOLEAN :
                 /\ clicked' = c
                 /\ pc' = IF c THEN "resolve" ELSE "ready"
    /\ UNCHANGED <<api_key, user_text, detected_language, translated_text,
                   translation_needed, questions, generated, displayed,
                   calls, uncaught>>

(* ----------------------------- resolving ------------------------------- *)

NeedsTranslation_m(lang) == TRUE

\* if detected_language != 'en'
NeedsTranslation(lang) == lang # "en"

ResolveExcept_m ==
    /\ msgs' = Append(msgs, "warning:detect_or_translate_failed")
    /\ translated_text' = user_text
    /\ detected_language' = detected_language

\* except Exception: warn, continue with the original text, assume English
ResolveExcept ==
    /\ msgs' = Append(msgs, "warning:detect_or_translate_failed")
    /\ translated_text' = user_text
    /\ detected_language' = "en"

\* detected_language = 'en'; translated_text = user_text; translation_needed = False
\* try: detected_language = detect(user_text) ...
Detect ==
    /\ pc = "resolve"
    /\ translation_needed' = FALSE
    /\ \/ \E lang \in Languages :
            /\ calls' = Append(calls, Call(104, "detect", user_text, "", "", TRUE, <<lang>>, ""))
            /\ detected_language' = lang
            /\ translated_text' = user_text
            /\ IF NeedsTranslation(lang)
               THEN /\ pc' = "translate"
                    /\ msgs' = msgs
               ELSE /\ pc' = "generate"
                    /\ msgs' = Append(msgs, "info:detected_english")
       \/ /\ calls' = Append(calls, Call(104, "detect", user_text, "", "", FALSE, None, "detect_error"))
          /\ ResolveExcept
          /\ pc' = "generate"
    /\ UNCHANGED <<api_key, user_text, clicked, word_count, questions,
                   generated, displayed, uncaught>>

\* translated_text = translator.translate(user_text, src=detected_language, dest="en").text
\* translation_needed = True, inside the same try block
Translate ==
    /\ pc = "translate"
    /\ \/ \E t \in TransTexts :
            /\ calls' = Append(calls, Call(106, "translate", user_text, detected_language, "en", TRUE, t, ""))
            /\ translated_text' = t
            /\ translation_needed' = TRUE
            /\ msgs' = Append(msgs, "info:translating_to_english")
            /\ UNCHANGED detected_language
       \/ /\ calls' = Append(calls, Call(106, "translate", user_text, detected_language, "en", FALSE, None, "translate_error"))
          /\ ResolveExcept
          /\ UNCHANGED translation_needed
    /\ pc' = "generate"
    /\ UNCHANGED <<api_key, user_text, clicked, word_count, questions,
                   generated, displayed, uncaught>>

(* ----------------------------- generating ------------------------------ *)

GenFailureValue_m(err) == <<"q">>

\* both except branches of generate_questions: return None
GenFailureValue(err) == None

\* the st.error lines of the except branch taken
GenFailureMsgs(err) ==
    IF err \in {"quota", "api_error"}
    THEN <<"error:google_api_error", "error:possible_reasons">>
    ELSE <<"error:unexpected_generation_error">>

ProceedsToLocalize_m(q) == TRUE

\* if questions is not None
ProceedsToLocalize(q) == q # None

\* questions = generate_questions(translated_text), then the test of its result
GenerateQuestions ==
    /\ pc = "generate"
    /\ \/ \E raw \in GenTexts :
            /\ calls' = Append(calls, Call(55, "generate_content", Prompt(translated_text), "", "", TRUE, raw, ""))
            /\ questions' = QuestionsFrom(raw)
            /\ msgs' = msgs
       \/ \E err \in GenErrors :
            /\ calls' = Append(calls, Call(55, "generate_content", Prompt(translated_text), "", "", FALSE, None, err))
            /\ questions' = GenFailureValue(err)
            /\ msgs' = msgs \o GenFailureMsgs(err)
    /\ generated' = questions'
    /\ pc' = IF ProceedsToLocalize(questions') THEN "localize" ELSE "failed"
    /\ UNCHANGED <<api_key, user_text, clicked, word_count, detected_language,
                   translated_text, translation_needed, displayed, uncaught>>

(* ----------------------------- localizing ------------------------------ *)

BackTranslateCall_m(q, lang, ok, ret) ==
    Call(126, "translate", q, lang, "en", ok, ret, IF ok THEN "" ELSE "translate_error")

\* translator.translate(questions, src="en", dest=detected_language)
BackTranslateCall(q, lang, ok, ret) ==
    Call(126, "translate", q, "en", lang, ok, ret, IF ok THEN "" ELSE "translate_error")

OnBackTranslateError_m(q) == <<>>

\* except Exception: warn and keep the English questions
OnBackTranslateError(q) == q

\* if translation_needed and detected_language != 'en': try to translate back
Localize ==
    /\ pc = "localize"
    /\ IF translation_needed /\ detected_language # "en"
       THEN \/ \E t \in TransTexts :
                 /\ calls' = Append(calls, BackTranslateCall(questions, detected_language, TRUE, t))
                 /\ questions' = t
                 /\ msgs' = Append(msgs, "info:translating_back")
            \/ /\ calls' = Append(calls, BackTranslateCall(questions, detected_language, FALSE, None))
               /\ questions' = OnBackTranslateError(questions)
               /\ msgs' = msgs \o <<"info:translating_back", "warning:back_translation_failed">>
       ELSE UNCHANGED <<calls, questions, msgs>>
    /\ pc' = "display"
    /\ UNCHANGED <<api_key, user_text, clicked, word_count, detected_language,
                   translated_text, translation_needed, generated, displayed,
                   uncaught>>

\* st.subheader("Generated Questions:"); st.write(questions)
Display ==
    /\ pc = "display"
    /\ msgs' = Append(msgs, "subheader:generated_questions")
    /\ displayed' = questions
    /\ pc' = "done"
    /\ UNCHANGED <<api_key, user_text, clicked, word_count, detected_language,
                   translated_text, translation_needed, questions, generated,
                   calls, uncaught>>

Next ==
    \/ LoadKey
    \/ ListModels
    \/ Configure
    \/ RenderForm
    \/ Validate
    \/ Detect
    \/ Translate
    \/ GenerateQuestions
    \/ Localize
    \/ Display

Spec == Init /\ [][Next]_vars

(* --------------------------- derived notions --------------------------- *)

CallsAt(line) == {c \in Issued : c.at = line}

\* the stage of the pipeline the run is in
Stage ==
    CASE pc \in {"load_key", "list_models", "configure"} -> "Startup"
      [] pc \in {"stopped", "crashed"} -> "Halted"
      [] pc = "main" -> "Idle"
      [] pc = "validate" -> "Validating"
      [] pc = "ready" -> "Ready"
      [] pc = "rejected" -> "Rejected"
      [] pc \in {"resolve", "translate"} -> "Resolving"
      [] pc = "generate" -> "Generating"
      [] pc = "failed" -> "Failed"
      [] pc \in {"localize", "display"} -> "Localizing"
      [] pc = "done" -> "Done"

\* the run has ended
Terminal == pc \in {"stopped", "crashed", "rejected", "ready", "failed", "done"}

DetectFailed == \E c \in CallsAt(104) : ~c.ok

\* detect() returned the tag lang
DetectedTag(lang) == \E c \in CallsAt(104) : c.ok /\ c.ret = <<lang>>

ForwardOK == \E c \in CallsAt(106) : c.ok

ForwardFailed == \E c \in CallsAt(106) : ~c.ok

BackOK == \E c \in CallsAt(126) : c.ok

BackFailed == \E c \in CallsAt(126) : ~c.ok

QuotaFailure == \E c \in CallsAt(55) : ~c.ok /\ c.err = "quota"

\* number of calls of model.generate_content issued so far
GenerateCalls == Cardinality({i \in 1..Len(calls) : calls[i].at = 55})

InMsgs(m) == \E i \in 1..Len(msgs) : msgs[i] = m

(* ------------------------------- claims -------------------------------- *)

\* C1: a run whose text has fewer than 5 words is blocked and has issued no
\* external call: no model listing or other call of the generative provider,
\* no language detection, no translation.
C1_RejectedRunIssuesNoCall ==
    pc = "rejected" =>
        \A c \in Issued :
            c.op \notin {"list_models", "generate_content", "detect", "translate"}

C3_BlankGenerationIsFailure ==
    (\E c \in CallsAt(55) : c.ok /\ Strip(c.ret) = <<>>) =>
        /\ pc \notin {"localize", "display", "done"}
        /\ CallsAt(126) = {}
        /\ displayed = None

\* C4: when detection fails, or the forward translation fails after a
\* non-English tag was detected, the run goes on: the generator is given the
\* original text, the language tag is 'en', and no back-translation is made.
C4_ResolveFailureKeepsOriginalText ==
    (DetectFailed \/ ForwardFailed) =>
        /\ ~uncaught /\ pc \notin {"crashed", "stopped"}
        /\ detected_language = "en"
        /\ translated_text = user_text
        /\ \A c \in CallsAt(55) : c.text = Prompt(user_text)
        /\ CallsAt(126) = {}
        /\ pc \in {"localize", "display", "done"} => questions = generated
        /\ pc = "done" => displayed = generated

C4_Witness == pc = "done" /\ ForwardFailed /\ DetectedTag("fr")

\* C5: when forward translation and generation succeeded and the
\* back-translation fails, the displayed text is exactly the text the
\* generator returned, which is neither missing nor empty, and the run has
\* not failed.
C5_BackTranslationFailureShowsEnglish ==
    (ForwardOK /\ BackFailed) =>
        /\ ~uncaught /\ pc \in {"display", "done"}
        /\ questions = generated
        /\ generated # None /\ generated # <<>>
        /\ pc = "done" => displayed = generated

C5_Witness == pc = "done" /\ ForwardOK /\ BackFailed

\* C6: for a text detected as 'en' no translation call is made in either
\* direction, the generator is given the original text, and the displayed
\* text is the generator's result.
C6_EnglishInputIsNeverTranslated ==
    DetectedTag("en") =>
        /\ CallsAt(106) = {} /\ CallsAt(126) = {}
        /\ \A c \in Issued : c.op # "translate"
        /\ translated_text = user_text
        /\ \A c \in CallsAt(55) : c.text = Prompt(user_text)
        /\ pc \in {"localize", "display", "done"} => questions = generated
        /\ pc = "done" => displayed = generated

C6_Witness == pc = "done" /\ DetectedTag("en")

\* C7: no run ends with an uncaught exception of an external call.
C7_NoUncaughtException == ~uncaught

\* C8: when forward and back translation both succeed, the back-translation
\* translates the generator's result from 'en' to the tag detection returned,
\* and its result is the displayed text.
C8_BackTranslationTargetsDetectedTag ==
    (ForwardOK /\ BackOK) =>
        \A b \in CallsAt(126) :
            /\ b.op = "translate" /\ b.src = "en"
            /\ b.dest # "en" /\ DetectedTag(b.dest)
            /\ b.dest = detected_language
            /\ b.text = generated
            /\ questions = b.ret
            /\ pc = "done" => displayed = b.ret

C8_Witness == pc = "done" /\ ForwardOK /\ BackOK

\* the stage order of a request; a run whose enabled button is not pressed
\* makes no request and rests in Ready
StageOrder ==
    CASE Stage = "Startup" -> Stage' \in {"Startup", "Halted", "Idle"}
      [] Stage = "Idle" -> Stage' = "Validating"
      [] Stage = "Validating" ->
            IF clicked' THEN Stage' = "Resolving" ELSE Stage' \in {"Rejected", "Ready"}
      [] Stage = "Resolving" -> Stage' \in {"Resolving", "Generating"}
      [] Stage = "Generating" -> Stage' \in {"Failed", "Localizing"}
      [] Stage = "Localizing" -> Stage' \in {"Localizing", "Done"}
      [] OTHER -> FALSE

\* C9: every step follows the stage order; the generator is called only in
\* the Generating stage, after detection was attempted; back-translation and
\* display happen only in the Localizing stage, after generation returned a
\* result; nothing happens after Rejected, Failed or Done.
C9_StagesRunInOrder ==
    [][/\ StageOrder
       /\ CallsAt(55)' # CallsAt(55) =>
             Stage = "Generating" /\ CallsAt(104) # {}
       /\ Stage' \in {"Localizing", "Done"} => generated' # None
       /\ (CallsAt(126)' # CallsAt(126) \/ displayed' # displayed) =>
             Stage = "Localizing" /\ generated # None
       /\ Stage \notin {"Rejected", "Failed", "Done"}]_vars

C9_Witness == pc = "done" /\ CallsAt(126) # {}

\* C10 (as stated): whenever the display step is reached the text written is
\* not empty.
C10_DisplayedTextIsNonEmpty == pc = "done" => displayed # <<>>

\* C10 (amended): whenever the display step is reached a text is written, and
\* it is empty exactly when a back-translation returned an empty text; the
\* text is non-empty whenever it is the generator's own result.
C10_DisplayedEmptyOnlyFromBackTranslation ==
    pc = "done" =>
        /\ displayed # None
        /\ displayed = <<>> <=> \E c \in CallsAt(126) : c.ok /\ c.ret = <<>>
        /\ ~BackOK => (displayed = generated /\ displayed # <<>>)

C10_Witness ==
    /\ pc = "done"
    /\ CallsAt(126) = {}
    /\ \E c \in CallsAt(55) : c.ok /\ Strip(c.ret) = <<>>

====
